---- MODULE Spec2Model ----
(***************************************************************************)
(* The benchmark post-processing scripts of qa/terraform/scripts:          *)
(*   average_runs.py     average_csv_files  (the Aggregator)               *)
(*   format_csv_file.py  process_throughput, process_block_time and        *)
(*                       normalize_node_names (the Normalizer)             *)
(*                                                                         *)
(* A CSV file is a sequence of rows [node, ts, val].  A numeric cell is a  *)
(* record [k, q]: k is the way the number is written ("int": digits only,  *)
(* "float": with a decimal point, "nan": the empty field) and q is ten     *)
(* times the number (a number of tenths).  A DataFrame is the same         *)
(* sequence with every numeric column carrying one dtype.                  *)
(***************************************************************************)
EXTENDS Integers, Sequences, FiniteSets

VARIABLES
    pc,            \* "start" before the call, "done" after it returned or raised
    input_files,   \* average_runs: the contents of the files of input_files, in order
    output_file,   \* average_runs: the content of the file at output_file
    prior_output,  \* average_runs: what output_file held before the call
    raised,        \* average_runs: the exception the call ended with, or NoError
    raw_file,      \* format_csv_file: the raw table read by main
    metric,        \* format_csv_file: the --type the call ran with
    formatted      \* format_csv_file: the DataFrame the process_* function returned

vars == <<pc, input_files, output_file, prior_output, raised, raw_file, metric, formatted>>

\* ------------------------------------------------------------------ bounds
MaxFiles == 3
MaxRows == 2

\* ------------------------------------------------------------- numeric cells
IntCell(n) == [k |-> "int", q |-> 10 * n]
FloatCell(tenths) == [k |-> "float", q |-> tenths]

IsWhole(c) == c.q % 10 = 0

Range(s) == {s[i] : i \in DOMAIN s}

\* ------------------------------------------------------------ pandas pieces
\* The dtype read_csv infers for a numeric column: int64 when every field is
\* written as an integer, float64 otherwise.
ColumnDtype(file, c) ==
    IF \A i \in DOMAIN file : file[i][c].k = "int" THEN "int" ELSE "float"

Promote(cell, dtype) ==
    IF cell.k = "nan" THEN cell ELSE [k |-> dtype, q |-> cell.q]

read_csv(file) ==
    [i \in DOMAIN file |->
        [node |-> file[i].node,
         ts   |-> Promote(file[i].ts, ColumnDtype(file, "ts")),
         val  |-> Promote(file[i].val, ColumnDtype(file, "val"))]]

\* to_csv writes an int64 cell as digits and a float64 cell with its decimal
\* point, row by row in the frame's order.
to_csv(df) ==
    [i \in DOMAIN df |->
        [node |-> df[i].node,
         ts   |-> [k |-> df[i].ts.k, q |-> df[i].ts.q],
         val  |-> [k |-> df[i].val.k, q |-> df[i].val.q]]]

\* df.iloc[:, :2]
KeyColumns(df) == [i \in DOMAIN df |-> <<df[i].node, df[i].ts>>]

\* DataFrame.equals: same shape, same dtypes, same values position by position.
equals(a, b) == a = b

\* Variant of FirstMismatch: the loop runs to its end and the last mismatch wins.
FirstMismatch_last(dfs) ==
    LET bad == {i \in 2..Len(dfs) : KeyColumns(dfs[1]) # KeyColumns(dfs[i])}
    IN  IF bad = {} THEN 0 ELSE CHOOSE i \in bad : \A j \in bad : i >= j

\* The loop of average_csv_files: the index (counted from 2) of the first
\* frame whose key columns differ from those of frame 1, 0 when there is none.
FirstMismatch(dfs) ==
    LET bad == {i \in 2..Len(dfs) : ~equals(KeyColumns(dfs[1]), KeyColumns(dfs[i]))}
    IN  IF bad = {} THEN 0 ELSE CHOOSE i \in bad : \A j \in bad : i <= j

\* ---------------------------------------------------------------- float64
\* A float64 that is not negative: the integer written by the bits m (most
\* significant first, at most 53 of them, no leading zero) times 2^e.
Zeros(n) == [i \in 1..n |-> 0]

\* b without its leading zeros.
Strip(b) ==
    IF \A i \in DOMAIN b : b[i] = 0 THEN <<>>
    ELSE SubSeq(b, CHOOSE i \in DOMAIN b : b[i] = 1 /\ \A j \in 1..(i - 1) : b[j] = 0,
                Len(b))

Front(b) == SubSeq(b, 1, Len(b) - 1)
Last(b) == b[Len(b)]

RECURSIVE Bits(_)
Bits(n) == IF n = 0 THEN <<>> ELSE Append(Bits(n \div 2), n % 2)

RECURSIVE ToInt(_)
ToInt(b) == IF b = <<>> THEN 0 ELSE 2 * ToInt(Front(b)) + Last(b)

RECURSIVE Pow2(_)
Pow2(k) == IF k = 0 THEN 1 ELSE 2 * Pow2(k - 1)

\* The bits in groups of 16, most significant first, and back.
Limbs(b) ==
    LET n == (Len(b) + 15) \div 16
        p == Zeros(16 * n - Len(b)) \o b
    IN  [j \in 1..n |-> ToInt(SubSeq(p, 16 * (j - 1) + 1, 16 * j))]

Unlimbs(l) ==
    [i \in 1..(16 * Len(l)) |->
        (l[(i - 1) \div 16 + 1] \div Pow2(15 - ((i - 1) % 16))) % 2]

RECURSIVE AddLimbs(_, _, _)
AddLimbs(a, b, carry) ==
    IF a = <<>> THEN <<carry>>
    ELSE LET s == Last(a) + Last(b) + carry
         IN  Append(AddLimbs(Front(a), Front(b), s \div 65536), s % 65536)

\* a + b + carry on the integers the bits write.
AddBits(a, b, carry) ==
    LET n  == IF Len(a) < Len(b) THEN Len(b) ELSE Len(a)
        pa == Zeros(n - Len(a)) \o a
        pb == Zeros(n - Len(b)) \o b
    IN  Strip(Unlimbs(AddLimbs(Limbs(pa), Limbs(pb), carry)))

RECURSIVE DivLimbs(_, _)
DivLimbs(l, n) ==
    IF l = <<>> THEN [q |-> <<>>, r |-> 0]
    ELSE LET p   == DivLimbs(Front(l), n)
             cur == 65536 * p.r + Last(l)
         IN  [q |-> Append(p.q, cur \div n), r |-> cur % n]

\* bits / n for a small n > 0: the quotient's bits and the remainder.
LongDiv(b, n) ==
    LET d == DivLimbs(Limbs(b), n)
    IN  [q |-> Strip(Unlimbs(d.q)), r |-> d.r]

\* The float64 nearest to (b + a fraction that is not zero iff sticky) * 2^e,
\* ties to even: IEEE 754 round-to-nearest-even on a 53-bit significand.
RoundTo53(b, e, sticky) ==
    IF Len(b) <= 53 THEN [m |-> b, e |-> e]
    ELSE LET kept  == SubSeq(b, 1, 53)
             guard == b[54]
             rest  == sticky \/ \E i \in 55..Len(b) : b[i] = 1
             up    == guard = 1 /\ (rest \/ b[53] = 1)
             m     == IF up THEN AddBits(kept, <<>>, 1) ELSE kept
             drop  == Len(b) - 53
         IN  IF Len(m) = 54 THEN [m |-> Front(m), e |-> e + drop + 1]
             ELSE [m |-> m, e |-> e + drop]

FromInt(n) == [m |-> Bits(n), e |-> 0]

\* x + y in float64.
FAdd(x, y) ==
    IF x.e < y.e
    THEN RoundTo53(AddBits(x.m, y.m \o Zeros(y.e - x.e), 0), x.e, FALSE)
    ELSE RoundTo53(AddBits(x.m \o Zeros(x.e - y.e), y.m, 0), y.e, FALSE)

\* x / n for a small integer n > 0.
FDiv(x, n) ==
    LET d == LongDiv(x.m \o Zeros(64), n)
    IN  RoundTo53(d.q, x.e - 64, d.r # 0)

\* numpy's round of x (rint: half to even), as an integer.
FRound(x) ==
    IF x.e >= 0 THEN ToInt(x.m \o Zeros(x.e))
    ELSE LET k    == 0 - x.e
             mm   == IF Len(x.m) <= k THEN Zeros(k + 1 - Len(x.m)) \o x.m ELSE x.m
             ip   == ToInt(SubSeq(mm, 1, Len(mm) - k))
             frac == SubSeq(mm, Len(mm) - k + 1, Len(mm))
             up   == /\ frac[1] = 1
                     /\ (ip % 2 = 1 \/ \E i \in 2..k : frac[i] = 1)
         IN  IF up THEN ip + 1 ELSE ip

\* The float64 read_csv parses a cell into: the digits without the point,
\* divided by ten for the one digit after it.
ParseFloat(cell) ==
    IF cell.q % 10 = 0 THEN FromInt(cell.q \div 10) ELSE FDiv(FromInt(cell.q), 10)

\* sum(values) at row r over the first n frames in float64: 0 + v1 + v2 + ...,
\* left to right.
RECURSIVE FSum(_, _, _)
FSum(dfs, r, n) ==
    IF n = 1 THEN ParseFloat(dfs[1][r].val)
    ELSE FAdd(FSum(dfs, r, n - 1), ParseFloat(dfs[n][r].val))

\* sum(values): Python's sum over the value columns, row r, in tenths.
RECURSIVE SumTenths(_, _, _)
SumTenths(dfs, r, n) ==
    IF n = 0 THEN 0 ELSE SumTenths(dfs, r, n - 1) + dfs[n][r].val.q

\* Variant of round: half away from zero, as Python 2's round did.
round_half_away(num, den) ==
    LET f   == num \div den
        rem == num - f * den
    IN  IF 2 * rem < den THEN f
        ELSE IF 2 * rem > den THEN f + 1
        ELSE IF num > 0 THEN f + 1 ELSE f

\* Variant of round: the mean is cast without rounding (astype(int) alone).
round_truncate(num, den) ==
    IF num >= 0 THEN num \div den ELSE 0 - ((0 - num) \div den)

\* Series.round() of num/den (den > 0): numpy rounds half to even.
round(num, den) ==
    LET f   == num \div den
        rem == num - f * den
    IN  IF 2 * rem < den THEN f
        ELSE IF 2 * rem > den THEN f + 1
        ELSE IF f % 2 = 0 THEN f ELSE f + 1

\* float64 holds the values at row r and their sums exactly: they are
\* multiples of 1/2 (int64 columns are summed as integers).
ExactAt(dfs, r) == \A n \in DOMAIN dfs : dfs[n][r].val.q % 5 = 0

\* (sum(values) / len(values)).round().astype(int) at row r.  Where float64
\* is exact on the values the mean is computed exactly: the division rounds
\* the quotient to 53 bits, which moves it across no integer and no half.
\* Elsewhere the sum, the division and the rounding are float64's (values that
\* are not negative).
AvgRounded(dfs, r) ==
    IF ExactAt(dfs, r)
    THEN round(SumTenths(dfs, r, Len(dfs)), 10 * Len(dfs))
    ELSE FRound(FDiv(FSum(dfs, r, Len(dfs)), Len(dfs)))

NoError == [kind |-> "none", index |-> 0]
ValueError(i) == [kind |-> "ValueError", index |-> i]
Absent == <<>>

\* Variant of average_csv_files: a single file takes the averaging path too.
average_csv_files_no_passthrough(files, prior, inplace) ==
    LET dfs == [i \in DOMAIN files |-> read_csv(files[i])]
        m   == FirstMismatch(dfs)
        dt  == IF inplace THEN dfs[1][1].val.k ELSE "int"
        result == [r \in DOMAIN dfs[1] |->
                      [node |-> dfs[1][r].node,
                       ts   |-> dfs[1][r].ts,
                       val  |-> [k |-> dt, q |-> 10 * AvgRounded(dfs, r)]]]
    IN  IF m # 0
        THEN [raised |-> ValueError(m), output |-> prior]
        ELSE [raised |-> NoError, output |-> to_csv(result)]

\* What average_csv_files(files, output_file) leaves behind when output_file
\* held prior: the exception raised and the content of output_file.
\* inplace: whether result.iloc[:, 2] = ... keeps the dtype of the column it
\* assigns into (pandas sets in place from 2.0 on, and replaced the column
\* before), which shows only when frame 1's value column is float64.
average_csv_files(files, prior, inplace) ==
    IF Len(files) = 1
    THEN [raised |-> NoError, output |-> to_csv(read_csv(files[1]))]
    ELSE
        LET dfs == [i \in DOMAIN files |-> read_csv(files[i])]
            m   == FirstMismatch(dfs)
            dt  == IF inplace THEN dfs[1][1].val.k ELSE "int"
            result == [r \in DOMAIN dfs[1] |->
                          [node |-> dfs[1][r].node,
                           ts   |-> dfs[1][r].ts,
                           val  |-> [k |-> dt, q |-> 10 * AvgRounded(dfs, r)]]]
        IN  IF m # 0
            THEN [raised |-> ValueError(m), output |-> prior]
            ELSE [raised |-> NoError, output |-> to_csv(result)]

\* ------------------------------------------------- the inputs of average_runs
Nodes == {"Node1", "Node2"}
TsCells == {FloatCell(0), FloatCell(10)}
ValCells == {IntCell(0 - 1), IntCell(0), IntCell(1), IntCell(2), FloatCell(5)}
InexactCells == {FloatCell(1), FloatCell(13), FloatCell(43)}
DefaultVal == IntCell(100)

KeyCells == [node : Nodes, ts : TsCells]
AllKeyColumns == UNION {[1..r -> KeyCells] : r \in 1..MaxRows}

\* The key columns of a run that is compared with a run of key columns kc:
\* the same, one cell changed, the last row missing, or one more row.
Variants(kc) ==
    {kc}
    \cup {[kc EXCEPT ![i] = c] : i \in DOMAIN kc, c \in KeyCells}
    \cup (IF Len(kc) > 1 THEN {SubSeq(kc, 1, Len(kc) - 1)} ELSE {})
    \cup (IF Len(kc) < MaxRows THEN {Append(kc, c) : c \in KeyCells} ELSE {})

Table(kc, vals) ==
    [i \in DOMAIN kc |-> [node |-> kc[i].node, ts |-> kc[i].ts, val |-> vals[i]]]

\* Runs that may disagree on their keys (the value column is the same).
KeyVaried(files) ==
    \E n \in 1..MaxFiles : \E kc \in AllKeyColumns : \E dev \in [2..n -> Variants(kc)] :
        files = [f \in 1..n |->
                    LET k == IF f = 1 THEN kc ELSE dev[f]
                    IN  Table(k, [i \in DOMAIN k |-> DefaultVal])]

\* Runs of the same keys whose values differ at one row position r0.
ValueVaried(files) ==
    \E n \in 1..MaxFiles : \E kc \in AllKeyColumns :
        \E r0 \in DOMAIN kc : \E v \in [1..n -> ValCells] :
            files = [f \in 1..n |->
                        Table(kc, [i \in DOMAIN kc |-> IF i = r0 THEN v[f] ELSE DefaultVal])]

\* Single-row runs of one key whose values float64 cannot hold exactly.
InexactVaried(files) ==
    \E n \in 1..MaxFiles : \E v \in [1..n -> InexactCells] :
        files = [f \in 1..n |->
                    <<[node |-> "Node1", ts |-> FloatCell(0), val |-> v[f]]>>]

\* What output_file may hold before the call: nothing, or an older result.
Stale == <<[node |-> "Node1", ts |-> FloatCell(0), val |-> IntCell(7)]>>

NoFrame == <<>>

InitAverage ==
    /\ pc = "start"
    /\ KeyVaried(input_files) \/ ValueVaried(input_files) \/ InexactVaried(input_files)
    /\ prior_output \in {Absent, Stale}
    /\ output_file = prior_output
    /\ raised = NoError
    /\ raw_file = NoFrame
    /\ metric = "none"
    /\ formatted = NoFrame

\* average_runs.py main: one call of average_csv_files(input_files, output_file).
AverageCsvFiles ==
    /\ pc = "start"
    /\ \E inplace \in BOOLEAN :
        LET res == average_csv_files(input_files, output_file, inplace)
        IN  /\ raised' = res.raised
            /\ output_file' = res.output
    /\ pc' = "done"
    /\ UNCHANGED <<input_files, prior_output, raw_file, metric, formatted>>

NextAverage == AverageCsvFiles

SpecAverage == InitAverage /\ [][NextAverage]_vars

\* ===================================================== format_csv_file.py
\* A raw table is a sequence of rows [node_name, timestamp, value]: node_name
\* is the identifier as a sequence of characters, timestamp a number of
\* seconds, value a record [nan, tt] with tt the value in ten-thousandths
\* (7.9 is 79000) and nan set for the empty field.  A formatted row holds the
\* label as a sequence of characters, the timestamp as the fraction num/den
\* and the value as an integer.
MaxRawRows == 3

Value(tt) == [nan |-> FALSE, tt |-> tt]
NaN == [nan |-> TRUE, tt |-> 0]

\* Series.unique(): the distinct entries in order of first occurrence.
RECURSIVE unique(_)
unique(col) ==
    IF col = <<>> THEN <<>>
    ELSE LET front == unique(SubSeq(col, 1, Len(col) - 1))
             last  == col[Len(col)]
         IN  IF last \in Range(front) THEN front ELSE Append(front, last)

\* name.split('-')[0]: the characters before the first hyphen.
RECURSIVE split_first(_)
split_first(name) ==
    IF name = <<>> \/ Head(name) = "-" THEN <<>>
    ELSE <<Head(name)>> \o split_first(Tail(name))

\* str(k) for k >= 0, as characters.
RECURSIVE Digits(_)
Digits(k) ==
    LET d == <<"0", "1", "2", "3", "4", "5", "6", "7", "8", "9">>[(k % 10) + 1]
    IN  IF k < 10 THEN <<d>> ELSE Append(Digits(k \div 10), d)

\* f"Node{idx + 1} ({prefix})" for idx + 1 = k.
Label(k, prefix) ==
    <<"N", "o", "d", "e">> \o Digits(k) \o <<" ", "(">> \o prefix \o <<")">>

\* The position of name in the sequence u of distinct names.
IndexOf(u, name) == CHOOSE k \in DOMAIN u : u[k] = name

\* Variant of normalize_node_names: numbered from enumerate's idx, not idx + 1.
normalize_node_names_zero_based(df) ==
    LET unique_nodes == unique([i \in DOMAIN df |-> df[i].node_name])
    IN  [i \in DOMAIN df |->
            Label(IndexOf(unique_nodes, df[i].node_name) - 1, split_first(df[i].node_name))]

\* Variant of normalize_node_names: the prefix is what precedes the last hyphen.
normalize_node_names_rsplit(df) ==
    LET unique_nodes == unique([i \in DOMAIN df |-> df[i].node_name])
        cut(name) == IF \E i \in DOMAIN name : name[i] = "-"
                     THEN SubSeq(name, 1,
                            (CHOOSE i \in DOMAIN name :
                                /\ name[i] = "-"
                                /\ \A j \in DOMAIN name : name[j] = "-" => j <= i) - 1)
                     ELSE name
    IN  [i \in DOMAIN df |->
            Label(IndexOf(unique_nodes, df[i].node_name), cut(df[i].node_name))]

\* The column df['node_name'].map(mapping) of normalize_node_names.
normalize_node_names(df) ==
    LET unique_nodes == unique([i \in DOMAIN df |-> df[i].node_name])
    IN  [i \in DOMAIN df |->
            Label(IndexOf(unique_nodes, df[i].node_name), split_first(df[i].node_name))]

\* Variant of timestamp_min: the minimum is taken after the rows with a
\* missing value are dropped.
timestamp_min_after_dropna(df) ==
    LET kept == {i \in DOMAIN df : ~df[i].value.nan}
        rows == IF kept = {} THEN DOMAIN df ELSE kept
    IN  df[CHOOSE i \in rows : \A j \in rows : df[i].timestamp <= df[j].timestamp].timestamp

\* df['timestamp'].min(), over every row of the frame.
timestamp_min(df) ==
    df[CHOOSE i \in DOMAIN df : \A j \in DOMAIN df : df[i].timestamp <= df[j].timestamp].timestamp

\* The first two assignments of process_throughput and process_block_time:
\* the labels, and (timestamp - min) / 60.
Rebased(df) ==
    LET names == normalize_node_names(df)
        tmin  == timestamp_min(df)
    IN  [i \in DOMAIN df |->
            [node_name |-> names[i],
             timestamp |-> [num |-> df[i].timestamp - tmin, den |-> 60],
             value     |-> df[i].value]]

\* Variant of dropna: the rows with a missing value stay, as zero.
dropna_fill(df) ==
    [i \in DOMAIN df |-> IF df[i].value.nan THEN [df[i] EXCEPT !.value = Value(0)] ELSE df[i]]

\* df.dropna(subset=[value column]): the rows whose value is present, in order.
dropna(df) == SelectSeq(df, LAMBDA row : ~row.value.nan)

\* Variant of astype_int: the quotient is rounded to the nearest integer.
astype_int_rounded(num, den) == round(num, den)

\* Series.astype(int) of num/den (den > 0): the fraction is cut off, toward zero.
astype_int(num, den) ==
    IF num >= 0 THEN num \div den ELSE 0 - ((0 - num) \div den)

\* process_throughput: labels, rebased timestamps, dropna, astype(int).
process_throughput(df) ==
    LET kept == dropna(Rebased(df))
    IN  [i \in DOMAIN kept |->
            [kept[i] EXCEPT !.value = astype_int(kept[i].value.tt, 10000)]]

\* process_block_time: the same with (latency * 1000).astype(int).  The product
\* is taken on the decimal value; on the values of RawValues float64 gives the
\* same integer part (0.0579 * 1000 is 57.9, 1.2 * 1000 is 1200.0).
process_block_time(df) ==
    LET kept == dropna(Rebased(df))
    IN  [i \in DOMAIN kept |->
            [kept[i] EXCEPT !.value = astype_int(kept[i].value.tt * 1000, 10000)]]

\* ---------------------------------------------- the inputs of format_csv_file
NodeA1 == <<"n", "o", "d", "e", "-", "a", "-", "1">>
NodeB2 == <<"n", "o", "d", "e", "-", "b", "-", "2">>
Solo == <<"s", "o", "l", "o">>
RawNodes == {NodeA1, NodeB2, Solo}
RawTimestamps == {100, 130, 160, 220}
RawValues == {NaN, Value(79000), Value(579), Value(12000), Value(0 - 15000)}

\* Raw tables of up to MaxRawRows rows: either the nodes and the values vary
\* and the samples are a minute apart, or the timestamps vary and values are
\* missing or not, on one node.
RawVaried(raw) ==
    \E n \in 1..MaxRawRows :
        \/ \E ids \in [1..n -> RawNodes] : \E vals \in [1..n -> RawValues] :
            raw = [i \in 1..n |->
                      [node_name |-> ids[i], timestamp |-> 100 + 60 * (i - 1), value |-> vals[i]]]
        \/ \E tss \in [1..n -> RawTimestamps] : \E vals \in [1..n -> {NaN, Value(79000)}] :
            raw = [i \in 1..n |->
                      [node_name |-> NodeA1, timestamp |-> tss[i], value |-> vals[i]]]

InitFormat ==
    /\ pc = "start"
    /\ RawVaried(raw_file)
    /\ metric = "none"
    /\ formatted = NoFrame
    /\ input_files = <<>>
    /\ prior_output = Absent
    /\ output_file = Absent
    /\ raised = NoError

\* format_csv_file.py main with --type throughput.
FormatThroughput ==
    /\ pc = "start"
    /\ metric' = "throughput"
    /\ formatted' = process_throughput(raw_file)
    /\ pc' = "done"
    /\ UNCHANGED <<raw_file, input_files, prior_output, output_file, raised>>

\* format_csv_file.py main with --type block-time.
FormatBlockTime ==
    /\ pc = "start"
    /\ metric' = "block-time"
    /\ formatted' = process_block_time(raw_file)
    /\ pc' = "done"
    /\ UNCHANGED <<raw_file, input_files, prior_output, output_file, raised>>

NextFormat == FormatThroughput \/ FormatBlockTime

SpecFormat == InitFormat /\ [][NextFormat]_vars

\* ---------------------------------------------------- claims on average_runs
Done == pc = "done"
N == Len(input_files)

\* The key columns (columns 0 and 1) of input tables i and j are the same,
\* row for row by position, row count included.
SameKeys(i, j) ==
    /\ Len(input_files[i]) = Len(input_files[j])
    /\ \A r \in DOMAIN input_files[i] :
        /\ input_files[i][r].node = input_files[j][r].node
        /\ input_files[i][r].ts = input_files[j][r].ts

AllSameKeys == \A i \in 1..N : SameKeys(1, i)

\* The sum of the value column at row r over all input tables, in tenths.
RECURSIVE TenthsAt(_, _)
TenthsAt(r, n) == IF n = 0 THEN 0 ELSE TenthsAt(r, n - 1) + input_files[n][r].val.q

\* The number a cell of the output holds.
Whole(cell) == cell.q \div 10

Abs(x) == IF x < 0 THEN 0 - x ELSE x

\* A table as the numbers and names it holds, whatever way they are written.
NumView(t) == [i \in DOMAIN t |-> <<t[i].node, t[i].ts.q, t[i].val.q>>]

\* C1: with more than one input table, when the key columns of some table i in
\* 2..N differ from those of table 1, the call fails with the mismatch error
\* naming the smallest such i, and the output file keeps its prior state.
C1_MismatchRejected ==
    (Done /\ N > 1 /\ ~AllSameKeys) =>
        /\ raised.kind = "ValueError"
        /\ ~SameKeys(1, raised.index)
        /\ \A j \in 2..N : ~SameKeys(1, j) => raised.index <= j
        /\ output_file = prior_output

C1_Witness ==
    /\ Done /\ N = 3
    /\ Len(input_files[1]) = 2
    /\ SameKeys(1, 2) /\ ~SameKeys(1, 3)
    /\ raised = ValueError(3)
    /\ prior_output = Stale /\ output_file = Stale

\* C2: with more than one input table and all key columns equal to table 1's,
\* the output has table 1's row count and keys in the same order, and at each
\* row its value is an integer within 1/2 of the mean of the inputs' values
\* (100, 110, 90 gives 100).
C2_RoundedMean ==
    /\ round(10 * (100 + 110 + 90), 10 * 3) = 100
    /\ (Done /\ N > 1 /\ AllSameKeys) =>
        /\ raised = NoError
        /\ Len(output_file) = Len(input_files[1])
        /\ \A r \in DOMAIN output_file :
            /\ output_file[r].node = input_files[1][r].node
            /\ output_file[r].ts.q = input_files[1][r].ts.q
            /\ IsWhole(output_file[r].val)
            /\ Abs(10 * N * Whole(output_file[r].val) - TenthsAt(r, N)) <= 5 * N

C2_Witness ==
    /\ Done /\ N = 3 /\ AllSameKeys /\ raised = NoError
    /\ Len(output_file) = 2
    /\ \E r \in DOMAIN output_file :
        /\ TenthsAt(r, N) % (10 * N) # 0
        /\ input_files[1][r].val # input_files[2][r].val

\* float64 holds every value at row r exactly.
ExactRow(r) == \A n \in 1..N : input_files[n][r].val.q % 5 = 0

\* The mean at row r lies exactly halfway between two integers.
IsTie(r) == (TenthsAt(r, N) - 5 * N) % (10 * N) = 0

\* The integer half a unit below the mean at a tie row r.
TieLow(r) == (TenthsAt(r, N) - 5 * N) \div (10 * N)

\* C3 as stated: a mean exactly halfway between two integers is rounded half
\* away from zero (100.5 becomes 101, -100.5 becomes -101).
C3_HalfAwayFromZero ==
    (Done /\ N > 1 /\ AllSameKeys) =>
        \A r \in DOMAIN output_file :
            IsTie(r) =>
                Whole(output_file[r].val) =
                    IF TenthsAt(r, N) > 0 THEN TieLow(r) + 1 ELSE TieLow(r)

RECURSIVE TrailingZeros(_)
TrailingZeros(b) == IF b = <<>> \/ Last(b) = 1 THEN 0 ELSE 1 + TrailingZeros(Front(b))

\* The float64 x is an integer plus one half.
IsHalfway(x) == x.m # <<>> /\ TrailingZeros(x.m) + x.e + 1 = 0

\* The mean of row r as the call computes it when float64 is not exact on it.
ComputedMean(r) ==
    FDiv(FSum([n \in 1..N |-> read_csv(input_files[n])], r, N), N)

\* C3 amended: a mean that, as computed (sum / N in float64, exact for integer
\* entries), lies exactly halfway between two integers is rounded to the even
\* one of the two (100.5 becomes 100, 101.5 becomes 102, -100.5 becomes -100).
C3_HalfToEven ==
    /\ round(10 * (100 + 101), 10 * 2) = 100
    /\ round(10 * (101 + 102), 10 * 2) = 102
    /\ round(10 * ((0 - 100) + (0 - 101)), 10 * 2) = 0 - 100
    /\ (Done /\ N > 1 /\ AllSameKeys) =>
        \A r \in DOMAIN output_file :
            /\ (ExactRow(r) /\ IsTie(r)) =>
                /\ Whole(output_file[r].val) \in {TieLow(r), TieLow(r) + 1}
                /\ Whole(output_file[r].val) % 2 = 0
                /\ IsWhole(output_file[r].val)
            /\ (~ExactRow(r) /\ IsHalfway(ComputedMean(r))) =>
                /\ Whole(output_file[r].val) % 2 = 0
                /\ IsWhole(output_file[r].val)
                /\ Abs(10 * N * Whole(output_file[r].val) - TenthsAt(r, N)) <= 5 * N

C3_Witness ==
    /\ Done /\ N = 2 /\ AllSameKeys /\ raised = NoError
    /\ \E r \in DOMAIN output_file :
        /\ ExactRow(r) /\ IsTie(r)
        /\ TenthsAt(r, N) > 0
        /\ Whole(output_file[r].val) = TieLow(r)

\* C4: with exactly one input table the output table equals it cell for cell
\* in the same row order, with no rounding of the value column (a non-integer
\* value stays non-integer).
C4_PassThrough ==
    (Done /\ N = 1) =>
        /\ raised = NoError
        /\ Len(output_file) = Len(input_files[1])
        /\ \A r \in DOMAIN output_file :
            /\ output_file[r].node = input_files[1][r].node
            /\ output_file[r].ts.q = input_files[1][r].ts.q
            /\ output_file[r].val.q = input_files[1][r].val.q
        /\ read_csv(output_file) = read_csv(input_files[1])

C4_Witness ==
    /\ Done /\ N = 1 /\ raised = NoError
    /\ prior_output = Stale /\ output_file # Stale
    /\ Len(output_file) = 2
    /\ \E r \in DOMAIN output_file : ~IsWhole(output_file[r].val)

Orders(n) == {p \in [1..n -> 1..n] : \A i, j \in 1..n : p[i] = p[j] => i = j}

\* C5 as stated: two or more tables of identical key columns give the same
\* output table in every order of the list of tables.
C5_OrderIndependent ==
    (Done /\ N >= 2 /\ AllSameKeys) =>
        \A p \in Orders(N) : \A inplace \in BOOLEAN :
            LET res == average_csv_files([i \in 1..N |-> input_files[p[i]]],
                                         prior_output, inplace)
            IN  /\ res.raised = raised
                /\ NumView(res.output) = NumView(output_file)

\* ------------------------------------------------ claims on format_csv_file
Formatted == pc = "done" /\ metric # "none"

Missing == {i \in DOMAIN raw_file : raw_file[i].value.nan}

\* The raw row that the j-th row with a value is.
KeptIdx(j) ==
    CHOOSE i \in DOMAIN raw_file \ Missing :
        Cardinality({h \in 1..i : h \notin Missing}) = j

\* C6: the output of process_throughput and process_block_time holds exactly
\* the input rows whose value is not missing, in their original order: one row
\* fewer per missing value, no missing value left, every value an integer.
C6_MissingDropped ==
    Formatted =>
        /\ Len(formatted) = Len(raw_file) - Cardinality(Missing)
        /\ \A j \in DOMAIN formatted :
            /\ formatted[j].value \in Int
            /\ formatted[j].timestamp.num * 60 =
                   (raw_file[KeptIdx(j)].timestamp - timestamp_min(raw_file))
                       * formatted[j].timestamp.den
            /\ formatted[j].node_name = normalize_node_names(raw_file)[KeptIdx(j)]
            /\ formatted[j].value =
                   IF metric = "throughput"
                   THEN astype_int(raw_file[KeptIdx(j)].value.tt, 10000)
                   ELSE astype_int(raw_file[KeptIdx(j)].value.tt * 1000, 10000)

C6_Witness ==
    /\ Formatted /\ metric = "throughput"
    /\ Len(raw_file) = 3 /\ Missing = {2}
    /\ Len(formatted) = 2
    /\ raw_file[1].node_name # raw_file[3].node_name

\* The smallest timestamp of the raw table, rows with a missing value included.
RawMin ==
    CHOOSE t \in {raw_file[i].timestamp : i \in DOMAIN raw_file} :
        \A i \in DOMAIN raw_file : t <= raw_file[i].timestamp

Column(df, c) == [i \in DOMAIN df |-> df[i][c]]

Minutes(m) == [num |-> 60 * m, den |-> 60]

\* C7: every output timestamp is (raw_timestamp - min_timestamp) / 60 with the
\* minimum taken over all raw rows, those with a missing value included; raw
\* timestamps 100, 160, 220 give 0, 1, 2; no output timestamp is negative.
C7_TimestampRebased ==
    /\ Column(process_throughput(
           [i \in 1..3 |-> [node_name |-> Solo, timestamp |-> 40 + 60 * i, value |-> Value(0)]]),
           "timestamp") = <<Minutes(0), Minutes(1), Minutes(2)>>
    /\ Formatted =>
        \A j \in DOMAIN formatted :
            /\ formatted[j].timestamp.den = 60
            /\ formatted[j].timestamp.num = raw_file[KeptIdx(j)].timestamp - RawMin
            /\ formatted[j].timestamp.num >= 0

C7_Witness ==
    /\ Formatted /\ metric = "block-time"
    /\ Len(formatted) = 2
    /\ \E i \in Missing : \A h \in DOMAIN raw_file \ {i} :
           raw_file[i].timestamp < raw_file[h].timestamp
    /\ \A j \in DOMAIN formatted : formatted[j].timestamp.num > 0

\* p is what precedes the first hyphen of id (all of id when it has none).
IsPrefix(p, id) ==
    /\ \A i \in DOMAIN p : p[i] # "-"
    /\ Len(p) <= Len(id)
    /\ SubSeq(id, 1, Len(p)) = p
    /\ Len(p) < Len(id) => id[Len(p) + 1] = "-"

\* k such that row i's identifier is the k-th distinct one of column 0.
Rank(i) ==
    LET first == CHOOSE h \in 1..i :
                    /\ raw_file[h].node_name = raw_file[i].node_name
                    /\ \A g \in 1..(h - 1) : raw_file[g].node_name # raw_file[i].node_name
    IN  Cardinality({raw_file[h].node_name : h \in 1..first})

\* C8: the k-th distinct raw identifier, in first-occurrence order, is mapped
\* to 'Node{k} ({prefix})', k from 1, prefix the part before the first hyphen;
\* two rows get the same label exactly when they have the same identifier.
C8_LabelBijection ==
    Formatted =>
        LET labels == normalize_node_names(raw_file)
        IN  /\ \A i \in DOMAIN raw_file :
                \E n \in 0..Len(raw_file[i].node_name) :
                    /\ IsPrefix(SubSeq(raw_file[i].node_name, 1, n), raw_file[i].node_name)
                    /\ labels[i] = <<"N", "o", "d", "e">> \o Digits(Rank(i)) \o <<" ", "(">>
                                     \o SubSeq(raw_file[i].node_name, 1, n) \o <<")">>
            /\ \A i, h \in DOMAIN raw_file :
                labels[i] = labels[h] <=> raw_file[i].node_name = raw_file[h].node_name
            /\ \A j \in DOMAIN formatted : formatted[j].node_name = labels[KeptIdx(j)]
            /\ \A j, g \in DOMAIN formatted :
                formatted[j].node_name = formatted[g].node_name
                    <=> raw_file[KeptIdx(j)].node_name = raw_file[KeptIdx(g)].node_name

C8_Witness ==
    /\ Formatted /\ Len(formatted) = 3
    /\ raw_file[1].node_name = NodeB2
    /\ raw_file[2].node_name = NodeA1
    /\ raw_file[3].node_name = NodeB2
    /\ formatted[1].node_name # formatted[2].node_name
    /\ formatted[1].node_name = formatted[3].node_name

ExampleIds == <<NodeA1, NodeB2, NodeA1>>

\* C9 as stated: identifiers 'node-a-1', 'node-b-2', 'node-a-1' are labelled
\* 'Node1 (node-a)', 'Node2 (node-b)', 'Node1 (node-a)'.
C9_LabelsAsStated ==
    (Formatted /\ Column(raw_file, "node_name") = ExampleIds /\ Missing = {}) =>
        Column(formatted, "node_name") =
            << <<"N", "o", "d", "e", "1", " ", "(", "n", "o", "d", "e", "-", "a", ")">>,
               <<"N", "o", "d", "e", "2", " ", "(", "n", "o", "d", "e", "-", "b", ")">>,
               <<"N", "o", "d", "e", "1", " ", "(", "n", "o", "d", "e", "-", "a", ")">> >>

\* C9 amended: identifiers 'node-a-1', 'node-b-2', 'node-a-1' are labelled
\* 'Node1 (node)', 'Node2 (node)', 'Node1 (node)' in that row order.
C9_LabelsFirstHyphen ==
    (Formatted /\ Column(raw_file, "node_name") = ExampleIds /\ Missing = {}) =>
        Column(formatted, "node_name") =
            << <<"N", "o", "d", "e", "1", " ", "(", "n", "o", "d", "e", ")">>,
               <<"N", "o", "d", "e", "2", " ", "(", "n", "o", "d", "e", ")">>,
               <<"N", "o", "d", "e", "1", " ", "(", "n", "o", "d", "e", ")">> >>

C9_Witness ==
    /\ Formatted /\ metric = "throughput"
    /\ Column(raw_file, "node_name") = ExampleIds
    /\ Missing = {}
    /\ Len(formatted) = 3

\* v is x/10000 with its fractional part cut off, toward zero.
IsTruncationOf(v, x) ==
    IF x >= 0 THEN v * 10000 <= x /\ x < (v + 1) * 10000
    ELSE (v - 1) * 10000 < x /\ x <= v * 10000

====
